---- MODULE Spec2Model ----
(***************************************************************************)
(* IronShield client-side proof-of-work solver.                            *)
(*                                                                         *)
(* The model covers the coordinator (assets/worker_pool_manager.js,        *)
(* class WorkerPoolManager), the lanes it spawns (assets/wasm_pow_worker.js *)
(* whose portable search is the calculatePowSolution also found in         *)
(* assets/pow_worker.js) and the two callers of solve (assets/             *)
(* challenge_main.js and the older solveChallenge kept in the repository), *)
(* from the reading of the challenge page to the submission of the nonce.  *)
(*                                                                         *)
(* One action is one JavaScript task: a handler runs to completion, a      *)
(* lane suspends at every await.  Messages posted by a lane wait in a      *)
(* per-lane FIFO until the coordinator's event loop delivers them; a       *)
(* message already posted when the coordinator calls terminate() may       *)
(* still be delivered (the handlers guard against exactly that).           *)
(***************************************************************************)
EXTENDS Integers, Sequences, FiniteSets, TLC

(***************************************************************************)
(* Bounds of the model.                                                    *)
(***************************************************************************)
MaxCores == 2          \* lane counts 1..MaxCores are explored
MaxDifficulty == 2     \* difficulties 0..MaxDifficulty are explored
MaxBound == 6          \* bound M of the partition property

ProgressBatch == 2      \* attempts between two progress reports (1000 in the code)
AttemptLimit == 2       \* the attempt ceiling of a lane (1000000 in the code)
DigestNibbles == 4      \* hex digits of a digest kept by the model (64 in SHA-256)

\* the 100 ms of the onProgress callback, and the span of Date.now() that is explored
UiInterval == 1
MaxElapsed == 3
StartMs == UiInterval + 1

Undefined == "undefined"   \* an unset string-valued field, and its rendering in a concatenation
UndefinedNum == -1          \* an unset number-valued field
None == "none"

Challenges == {"abc123"}

(***************************************************************************)
(* HashOracle.  crypto.subtle.digest('SHA-256', challenge + ":" + nonce)   *)
(* rendered as lower-case hex; the model keeps the first DigestNibbles hex *)
(* digits of a fixed deterministic mixing function of the hashed text.     *)
(***************************************************************************)
ChallengeSeed(c) ==
    CASE c = "abc123" -> 8
      [] OTHER        -> 0      \* the text "undefined"

Mix(c, n) ==
    (((ChallengeSeed(c) + 7 * n + n * n) % 17) * 589 * (16 ^ (DigestNibbles - 4)))
        % (16 ^ DigestNibbles)

Nibble(x, k) == (x \div (16 ^ (DigestNibbles - k))) % 16

\* hash = hashArray.map(b => b.toString(16).padStart(2,'0')).join('')
Sha256Hex(c, n) == [k \in 1..DigestNibbles |-> Nibble(Mix(c, n), k)]

\* "0".repeat(difficulty); repeat(undefined) is the empty string
TargetPrefix(d) == [k \in 1..(IF d = UndefinedNum THEN 0 ELSE d) |-> 0]

\* hash.startsWith(targetPrefix)
StartsWith(hash, prefix) ==
    /\ Len(prefix) <= Len(hash)
    /\ \A k \in 1..Len(prefix) : hash[k] = prefix[k]

\* nonce.toString(): the decimal digits of a non-negative integer
RECURSIVE ToDecimal(_)
ToDecimal(n) == IF n < 10 THEN <<n>> ELSE Append(ToDecimal(n \div 10), n % 10)

\* the server's reading of the X-IronShield-Nonce decimal string
RECURSIVE ParseDecimal(_)
ParseDecimal(s) ==
    IF Len(s) = 0 THEN 0
    ELSE 10 * ParseDecimal(SubSeq(s, 1, Len(s) - 1)) + s[Len(s)]

(***************************************************************************)
(* The challenge page.  The content of the difficulty meta tag is a text,  *)
(* kept as its sequence of characters: a decimal digit is its value 0..9.  *)
(***************************************************************************)
MinusSign == 10      \* the character "-"
OtherChar == 11      \* a character that is neither a digit nor a sign

Timestamp == "1700000000"

\* the texts the difficulty meta tag is given
DifficultyTexts ==
    {ToDecimal(d) : d \in 0..MaxDifficulty}
        \cup {<<>>, <<OtherChar>>, <<MinusSign, 1>>, <<1, OtherChar>>}

\* the meta tags of the page; a missing tag has no content
Pages ==
    {p \in [hasDifficulty : BOOLEAN, difficulty : DifficultyTexts,
            hasTimestamp : BOOLEAN, timestamp : {"", Timestamp},
            hasChallenge : BOOLEAN, challenge : {""} \cup Challenges] :
        /\ ~p.hasDifficulty => p.difficulty = <<>>
        /\ ~p.hasTimestamp => p.timestamp = ""
        /\ ~p.hasChallenge => p.challenge = ""}

\* the value of the longest prefix of decimal digits of s, read after acc
RECURSIVE ParseDigits(_, _)
ParseDigits(s, acc) ==
    IF s = <<>> \/ Head(s) \notin 0..9 THEN acc
    ELSE ParseDigits(Tail(s), 10 * acc + Head(s))

\* parseInt(s, 10): an optional sign, then the longest prefix of digits; NaN
\* when there is no digit
ParseInt(s) ==
    LET neg == s # <<>> /\ Head(s) = MinusSign
        body == IF neg THEN Tail(s) ELSE s
    IN IF body = <<>> \/ Head(body) \notin 0..9
       THEN [nan |-> TRUE, value |-> 0]
       ELSE [nan |-> FALSE,
             value |-> (IF neg THEN -1 ELSE 1) * ParseDigits(body, 0)]

(***************************************************************************)
(* State.                                                                  *)
(***************************************************************************)
VARIABLES
    page,                \* the meta tags of the challenge page
    workerSupport,       \* window.Worker is defined
    client,              \* position of solveChallenge
    submitted,           \* the calls of apiClient.submitSolution, in order
    errorsShown,         \* calls of uiManager.showError
    progress,            \* what setProgress last set the progress bar to
    response,            \* how the fetch of submitSolution ended
    numCores,            \* this.numCores
    useWasm,             \* this.useWasm, the constructor's third argument
    threadsSupported,    \* what are_threads_supported() returns in this browser
    called,              \* solve() has been called on this coordinator
    argChallenge,        \* the challenge parameter of solve
    argDifficulty,       \* the difficulty parameter of solve
    currentChallenge,    \* this.currentChallenge
    currentDifficulty,   \* this.currentDifficulty
    workers,             \* this.workers, as the sequence of lane indices
    solutionFound,       \* this.solutionFound
    workersInitialized,  \* this.workersInitialized
    totalAttempts,       \* this.totalAttempts
    timeoutHandle,       \* this.timeoutHandle is non-null
    timerPending,        \* the timer armed by setTimeout has neither fired nor been cleared
    failedWorkers,       \* the failedWorkers counter captured by the onerror closures
    isWasmAvailable,     \* this.isWasmAvailable
    isWasmThreaded,      \* this.isWasmThreaded
    settled,             \* the resolve/reject continuations invoked so far, in order
    progressCalls,       \* invocations of this.onProgress
    wasmStatusCalls,     \* invocations of this.onWasmStatus
    firstSuccess,        \* the success messages the coordinator has processed, first one kept
    wst,                 \* per lane: position of the worker script
    terminated,          \* per lane: worker.terminate() has been called on it
    sent,                \* per lane: every message the lane has posted, in order
    wUseWasm,            \* per lane: the worker's useWasm flag
    wThreaded,           \* per lane: the worker's wasmThreaded flag
    job,                 \* per lane: the solve message being worked on
    nonce,               \* per lane: nonce of calculatePowSolution
    attempts,            \* per lane: attempts of calculatePowSolution
    lastReported,        \* per lane: lastReportedAttempts of calculatePowSolution
    tested,              \* per lane: the nonces whose digest the lane has computed
    wasmThrew,           \* per lane: the WASM call of this solve threw
    inbox,               \* per lane: messages posted to the worker, not yet handled
    chan,                \* per lane: messages and error events posted to the coordinator
    clock,               \* the server's clock, in seconds
    lastVerify,          \* the last call of the server's verify, with its result
    replay,              \* the last repetition of that call, with its clock and result
    nowMs,               \* what Date.now() returns in the page
    lastUIUpdate,        \* lastUIUpdate of the onProgress callback
    statusTimes,         \* Date.now() at each setStatus the onProgress callback made
    testClient,          \* test page: position of its solveChallenge
    mainSearch,          \* test page: position of calculatePowSolution on the main thread
    mainNonce,           \* test page: nonce of that calculatePowSolution
    mainAttempts,        \* test page: attempts of that calculatePowSolution
    mainTested,          \* test page: the nonces whose digest the main thread has computed
    raceTimer,           \* test page: the timer of timeoutPromise has not fired
    raceSettled,         \* test page: settlements of the promises given to Promise.race, in order
    trace,               \* the lane events delivered to both coordinators, in order
    poolRun,             \* WorkerPoolManager.solve run on trace: flag, counter, continuations
    inlineRun            \* the inline coordinator run on trace: flag, counter, continuations

coordVars == <<numCores, useWasm, called, argChallenge, argDifficulty, currentChallenge,
               currentDifficulty, workers, solutionFound, workersInitialized,
               totalAttempts, timeoutHandle, timerPending, failedWorkers,
               isWasmAvailable, isWasmThreaded, settled, progressCalls,
               wasmStatusCalls, firstSuccess>>
laneVars == <<wst, sent, wUseWasm, wThreaded, job, nonce, attempts, lastReported,
              tested, wasmThrew>>
clientVars == <<page, workerSupport, client, submitted, errorsShown, progress, response>>
serverVars == <<clock, lastVerify, replay>>
uiVars == <<nowMs, lastUIUpdate, statusTimes>>
solverVars == <<clientVars, coordVars, laneVars, uiVars, threadsSupported, terminated, inbox,
                chan>>
fallbackVars == <<testClient, mainSearch, mainNonce, mainAttempts, mainTested, raceTimer,
                  raceSettled>>
equivVars == <<trace, poolRun, inlineRun>>
testVars == <<fallbackVars, equivVars>>
vars == <<solverVars, serverVars, testVars>>

Lanes == 0..(numCores - 1)

\* every worker the page may come to create; the lanes of the first solve are Lanes
Slots == DOMAIN wst

NoSolution == [nonce_str |-> <<>>, hash |-> <<>>, attempts |-> 0]
NoJob == [challenge |-> None, difficulty |-> 0, startNonce |-> 0, nonceStep |-> 0]

\* a message posted by a lane; fields a message type does not carry keep their default
Msg(t) == [type |-> t, useWasm |-> FALSE, wasmThreaded |-> FALSE, attempts |-> 0,
           solution |-> NoSolution]

\* no call of verify yet
NoVerify == [called |-> FALSE, challenge |-> None, nonce |-> <<>>, difficulty |-> 0,
             issuedAt |-> 0, signature |-> 0, now |-> 0, result |-> None]

\* the call has not been repeated
NoReplay == [called |-> FALSE, now |-> 0, result |-> None]

\* the page as loaded, and the fields set by the WorkerPoolManager constructor;
\* the per-worker variables have one entry for each worker that g calls of
\* solve can create
InitWith(g) ==
    /\ page \in Pages
    /\ workerSupport \in BOOLEAN
    /\ client = "loaded"
    /\ submitted = <<>>
    /\ errorsShown = 0
    /\ progress = 0
    /\ response = None
    /\ numCores \in 1..MaxCores
    /\ useWasm \in BOOLEAN
    /\ threadsSupported \in BOOLEAN
    /\ called = FALSE
    /\ argChallenge = None
    /\ argDifficulty = 0
    /\ currentChallenge = Undefined
    /\ currentDifficulty = UndefinedNum
    /\ workers = <<>>
    /\ solutionFound = FALSE
    /\ workersInitialized = 0
    /\ totalAttempts = 0
    /\ timeoutHandle = FALSE
    /\ timerPending = FALSE
    /\ failedWorkers = 0
    /\ isWasmAvailable = FALSE
    /\ isWasmThreaded = FALSE
    /\ settled = <<>>
    /\ progressCalls = 0
    /\ wasmStatusCalls = 0
    /\ firstSuccess = <<>>
    /\ wst = [i \in 0..(g * numCores - 1) |-> "absent"]
    /\ terminated = [i \in 0..(g * numCores - 1) |-> FALSE]
    /\ sent = [i \in 0..(g * numCores - 1) |-> <<>>]
    /\ wUseWasm = [i \in 0..(g * numCores - 1) |-> FALSE]
    /\ wThreaded = [i \in 0..(g * numCores - 1) |-> FALSE]
    /\ job = [i \in 0..(g * numCores - 1) |-> NoJob]
    /\ nonce = [i \in 0..(g * numCores - 1) |-> 0]
    /\ attempts = [i \in 0..(g * numCores - 1) |-> 0]
    /\ lastReported = [i \in 0..(g * numCores - 1) |-> 0]
    /\ tested = [i \in 0..(g * numCores - 1) |-> {}]
    /\ wasmThrew = [i \in 0..(g * numCores - 1) |-> FALSE]
    /\ inbox = [i \in 0..(g * numCores - 1) |-> <<>>]
    /\ chan = [i \in 0..(g * numCores - 1) |-> <<>>]
    /\ clock = 0
    /\ lastVerify = NoVerify
    /\ replay = NoReplay
    /\ nowMs = StartMs
    /\ lastUIUpdate = 0
    /\ statusTimes = <<>>
    /\ testClient = "loaded"
    /\ mainSearch = "idle"
    /\ mainNonce = 0
    /\ mainAttempts = 0
    /\ mainTested = {}
    /\ raceTimer = FALSE
    /\ raceSettled = <<>>
    /\ trace = <<>>
    /\ poolRun = [solutionFound |-> FALSE, failedWorkers |-> 0, settled |-> <<>>]
    /\ inlineRun = [solutionFound |-> FALSE, failedWorkers |-> 0, settled |-> <<>>]

\* one solve is followed: the workers are those of one call
Init == InitWith(1)

(***************************************************************************)
(* Coordinator: WorkerPoolManager.                                         *)
(***************************************************************************)
InitMsg == [type |-> "init", challenge |-> None, difficulty |-> 0,
            startNonce |-> 0, nonceStep |-> 0]

\* a dispatch whose stride is off by one
SolveMsgWrongStep(k) == [type |-> "solve", challenge |-> currentChallenge,
                         difficulty |-> currentDifficulty,
                         startNonce |-> k, nonceStep |-> numCores + 1]

\* the solve message of worker_pool_manager.js:144-151 for the worker at index k
SolveMsg(k) == [type |-> "solve", challenge |-> currentChallenge,
                difficulty |-> currentDifficulty,
                startNonce |-> k, nonceStep |-> numCores]

InWorkers(i) == \E k \in 1..Len(workers) : workers[k] = i

\* a terminate() that empties the list but stops no worker
TerminateNone == terminated

\* a terminate() that stops only the first worker of the list
TerminateFirstOnly ==
    [i \in Slots |-> terminated[i] \/ (workers # <<>> /\ workers[1] = i)]

\* terminate(): worker.terminate() on every element of this.workers
Terminate == [i \in Slots |-> terminated[i] \/ InWorkers(i)]

Reject(err) == [kind |-> "reject", error |-> err, solution |-> NoSolution,
                usedWasm |-> FALSE, usedThreadedWasm |-> FALSE]
Resolve(m) == [kind |-> "resolve", error |-> None, solution |-> m.solution,
               usedWasm |-> m.useWasm, usedThreadedWasm |-> m.wasmThreaded]

\* a solve whose catch rejects without terminating the workers already created
SolveLeavesWorkers(c, d, caller, failAt) ==
    /\ ~called
    /\ called' = TRUE
    /\ argChallenge' = c
    /\ argDifficulty' = d
    /\ currentChallenge' = IF caller = "challenge_main" THEN c ELSE currentChallenge
    /\ currentDifficulty' = IF caller = "challenge_main" THEN d ELSE currentDifficulty
    /\ solutionFound' = FALSE
    /\ totalAttempts' = 0
    /\ workersInitialized' = 0
    /\ failedWorkers' = 0
    /\ IF failAt < numCores
       THEN /\ wst' = [i \in Slots |-> IF i < failAt THEN "created" ELSE wst[i]]
            /\ terminated' = terminated
            /\ inbox' = [i \in Slots |-> IF i < failAt THEN Append(inbox[i], InitMsg)
                                          ELSE inbox[i]]
            /\ workers' = <<>>
            /\ timeoutHandle' = FALSE
            /\ timerPending' = FALSE
            /\ settled' = Append(settled, Reject("InitFailed"))
       ELSE /\ wst' = [i \in Slots |-> IF i \in Lanes THEN "created" ELSE wst[i]]
            /\ terminated' = terminated
            /\ inbox' = [i \in Slots |-> IF i \in Lanes THEN Append(inbox[i], InitMsg)
                                          ELSE inbox[i]]
            /\ workers' = [k \in 1..numCores |-> k - 1]
            /\ timeoutHandle' = TRUE
            /\ timerPending' = TRUE
            /\ settled' = settled
    /\ UNCHANGED <<numCores, useWasm, threadsSupported, isWasmAvailable, isWasmThreaded,
                   progressCalls, wasmStatusCalls, firstSuccess, sent, wUseWasm, wThreaded, job,
                   nonce, attempts, lastReported, tested, wasmThrew, chan>>

\* the caller's preparation followed by WorkerPoolManager.solve.  caller is
\* "challenge_main" (stores the challenge in the pool first) or "legacy" (calls
\* solve directly); failAt < numCores makes the creation of worker failAt throw.
Solve(c, d, caller, failAt) ==
    /\ ~called
    /\ called' = TRUE
    /\ argChallenge' = c
    /\ argDifficulty' = d
    /\ currentChallenge' = IF caller = "challenge_main" THEN c ELSE currentChallenge
    /\ currentDifficulty' = IF caller = "challenge_main" THEN d ELSE currentDifficulty
    /\ solutionFound' = FALSE
    /\ totalAttempts' = 0
    /\ workersInitialized' = 0
    /\ failedWorkers' = 0
    /\ IF failAt < numCores
       THEN /\ wst' = [i \in Slots |-> IF i < failAt THEN "created" ELSE wst[i]]
            /\ terminated' = [i \in Slots |-> i < failAt]
            /\ inbox' = [i \in Slots |-> IF i < failAt THEN Append(inbox[i], InitMsg)
                                          ELSE inbox[i]]
            /\ workers' = <<>>
            /\ timeoutHandle' = FALSE
            /\ timerPending' = FALSE
            /\ settled' = Append(settled, Reject("InitFailed"))
       ELSE /\ wst' = [i \in Slots |-> IF i \in Lanes THEN "created" ELSE wst[i]]
            /\ terminated' = terminated
            /\ inbox' = [i \in Slots |-> IF i \in Lanes THEN Append(inbox[i], InitMsg)
                                          ELSE inbox[i]]
            /\ workers' = [k \in 1..numCores |-> k - 1]
            /\ timeoutHandle' = TRUE
            /\ timerPending' = TRUE
            /\ settled' = settled
    /\ UNCHANGED <<numCores, useWasm, threadsSupported, isWasmAvailable, isWasmThreaded,
                   progressCalls, wasmStatusCalls, firstSuccess, sent, wUseWasm, wThreaded, job,
                   nonce, attempts, lastReported, tested, wasmThrew, chan>>

\* a timeout callback that neither rejects nor terminates
TimeoutSilent ==
    /\ timerPending
    /\ timerPending' = FALSE
    /\ UNCHANGED <<clientVars, serverVars, testVars, uiVars, numCores, useWasm,
                   threadsSupported, called, argChallenge, argDifficulty, currentChallenge,
                   currentDifficulty, solutionFound, workersInitialized, totalAttempts,
                   failedWorkers, isWasmAvailable, isWasmThreaded, progressCalls,
                   wasmStatusCalls, firstSuccess, laneVars, inbox, chan, terminated,
                   workers, timeoutHandle, settled>>

\* a timeout callback that rejects but leaves the lanes running
TimeoutKeepsLanes ==
    /\ timerPending
    /\ timerPending' = FALSE
    /\ IF ~solutionFound
       THEN settled' = Append(settled, Reject("Timeout"))
       ELSE settled' = settled
    /\ UNCHANGED <<clientVars, serverVars, testVars, uiVars, numCores, useWasm, threadsSupported,
                   called, argChallenge, argDifficulty, currentChallenge, currentDifficulty,
                   solutionFound, workersInitialized, totalAttempts, failedWorkers,
                   isWasmAvailable, isWasmThreaded, progressCalls, wasmStatusCalls,
                   firstSuccess, laneVars, inbox, chan, terminated, workers, timeoutHandle>>

\* the setTimeout callback of solve
Timeout ==
    /\ timerPending
    /\ timerPending' = FALSE
    /\ IF ~solutionFound
       THEN /\ terminated' = Terminate
            /\ workers' = <<>>
            /\ timeoutHandle' = FALSE
            /\ settled' = Append(settled, Reject("Timeout"))
       ELSE UNCHANGED <<terminated, workers, timeoutHandle, settled>>
    /\ UNCHANGED <<clientVars, serverVars, testVars, uiVars, numCores, useWasm, threadsSupported,
                   called, argChallenge, argDifficulty, currentChallenge, currentDifficulty,
                   solutionFound, workersInitialized, totalAttempts, failedWorkers,
                   isWasmAvailable, isWasmThreaded, progressCalls, wasmStatusCalls,
                   firstSuccess, laneVars, inbox, chan>>

\* an init_complete case that dispatches on the first reply instead of the last
OnInitCompleteEager(m) ==
    /\ workersInitialized' = workersInitialized + 1
    /\ isWasmAvailable' = (isWasmAvailable \/ m.useWasm)
    /\ isWasmThreaded' = IF m.useWasm THEN m.wasmThreaded ELSE isWasmThreaded
    /\ wasmStatusCalls' = IF m.useWasm THEN wasmStatusCalls + 1 ELSE wasmStatusCalls
    /\ inbox' = IF workersInitialized + 1 = 1
                 THEN [j \in Slots |->
                         IF InWorkers(j)
                         THEN Append(inbox[j],
                                     SolveMsg((CHOOSE k \in 1..Len(workers) : workers[k] = j) - 1))
                         ELSE inbox[j]]
                 ELSE inbox
    /\ UNCHANGED <<solutionFound, totalAttempts, progressCalls, settled, terminated,
                   workers, timeoutHandle, timerPending>>
    /\ UNCHANGED uiVars

\* _handleWorkerMessage, case "init_complete"
OnInitComplete(m) ==
    /\ workersInitialized' = workersInitialized + 1
    /\ isWasmAvailable' = (isWasmAvailable \/ m.useWasm)
    /\ isWasmThreaded' = IF m.useWasm THEN m.wasmThreaded ELSE isWasmThreaded
    /\ wasmStatusCalls' = IF m.useWasm THEN wasmStatusCalls + 1 ELSE wasmStatusCalls
    /\ inbox' = IF workersInitialized + 1 = numCores
                 THEN [j \in Slots |->
                         IF InWorkers(j)
                         THEN Append(inbox[j],
                                     SolveMsg((CHOOSE k \in 1..Len(workers) : workers[k] = j) - 1))
                         ELSE inbox[j]]
                 ELSE inbox
    /\ UNCHANGED <<solutionFound, totalAttempts, progressCalls, settled, terminated,
                   workers, timeoutHandle, timerPending>>
    /\ UNCHANGED uiVars

\* a success case that forgets to set this.solutionFound
OnSuccessForgetsFlag(m) ==
    /\ solutionFound' = solutionFound
    /\ terminated' = Terminate
    /\ workers' = <<>>
    /\ timeoutHandle' = FALSE
    /\ timerPending' = FALSE
    /\ settled' = Append(settled, Resolve(m))
    /\ UNCHANGED <<workersInitialized, isWasmAvailable, isWasmThreaded,
                   wasmStatusCalls, totalAttempts, progressCalls, inbox>>
    /\ UNCHANGED uiVars

\* _handleWorkerMessage, case "success"
OnSuccess(m) ==
    /\ solutionFound' = TRUE
    /\ terminated' = Terminate
    /\ workers' = <<>>
    /\ timeoutHandle' = FALSE
    /\ timerPending' = FALSE
    /\ settled' = Append(settled, Resolve(m))
    /\ UNCHANGED <<workersInitialized, isWasmAvailable, isWasmThreaded,
                   wasmStatusCalls, totalAttempts, progressCalls, inbox>>
    /\ UNCHANGED uiVars

\* a callback that shows every progress report
ShowsStatusAlways(now, last) == TRUE

\* if (now - lastUIUpdate > 100)
ShowsStatus(now, last) == now - last > UiInterval

\* workerPool.onProgress as installed by solveChallenge; the legacy caller installs none
OnProgressCallback ==
    /\ IF currentChallenge # Undefined /\ ShowsStatus(nowMs, lastUIUpdate)
       THEN /\ lastUIUpdate' = nowMs
            /\ statusTimes' = Append(statusTimes, nowMs)
       ELSE UNCHANGED <<lastUIUpdate, statusTimes>>
    /\ nowMs' = nowMs

\* a progress case that stores the reported delta instead of adding it
OnProgressOverwrites(m) ==
    /\ totalAttempts' = m.attempts
    /\ progressCalls' = progressCalls + 1
    /\ OnProgressCallback
    /\ UNCHANGED <<solutionFound, workersInitialized, isWasmAvailable, isWasmThreaded,
                   wasmStatusCalls, settled, terminated, workers, timeoutHandle,
                   timerPending, inbox>>

\* _handleWorkerMessage, case "progress"
OnProgress(m) ==
    /\ totalAttempts' = totalAttempts + m.attempts
    /\ progressCalls' = progressCalls + 1
    /\ OnProgressCallback
    /\ UNCHANGED <<solutionFound, workersInitialized, isWasmAvailable, isWasmThreaded,
                   wasmStatusCalls, settled, terminated, workers, timeoutHandle,
                   timerPending, inbox>>

\* worker.onmessage = (e) => this._handleWorkerMessage(e, i)
HandleWorkerMessage(i) ==
    /\ chan[i] # <<>>
    /\ Head(chan[i]).type # "errorEvent"
    /\ chan' = [chan EXCEPT ![i] = Tail(@)]
    /\ firstSuccess' = IF Head(chan[i]).type = "success" /\ firstSuccess = <<>>
                        THEN <<Head(chan[i])>> ELSE firstSuccess
    /\ LET m == Head(chan[i]) IN
         IF solutionFound
         THEN UNCHANGED <<solutionFound, workersInitialized, isWasmAvailable,
                          isWasmThreaded, wasmStatusCalls, totalAttempts,
                          progressCalls, settled, terminated, workers,
                          timeoutHandle, timerPending, inbox, uiVars>>
         ELSE CASE m.type = "init_complete" -> OnInitComplete(m)
                [] m.type = "success"       -> OnSuccess(m)
                [] m.type = "progress"      -> OnProgress(m)
                [] OTHER                    -> \* finalProgress, hashingStarted, default
                     UNCHANGED <<solutionFound, workersInitialized, isWasmAvailable,
                                 isWasmThreaded, wasmStatusCalls, totalAttempts,
                                 progressCalls, settled, terminated, workers,
                                 timeoutHandle, timerPending, inbox, uiVars>>
    /\ UNCHANGED <<clientVars, serverVars, testVars, numCores, useWasm, threadsSupported, called,
                   argChallenge, argDifficulty, currentChallenge, currentDifficulty,
                   failedWorkers, laneVars>>

\* worker.onerror = (e) => this._handleWorkerError(e, i, ++failedWorkers)
HandleWorkerError(i) ==
    /\ chan[i] # <<>>
    /\ Head(chan[i]).type = "errorEvent"
    /\ chan' = [chan EXCEPT ![i] = Tail(@)]
    /\ failedWorkers' = failedWorkers + 1
    /\ IF ~solutionFound /\ failedWorkers + 1 >= numCores
       THEN /\ terminated' = Terminate
            /\ workers' = <<>>
            /\ timeoutHandle' = FALSE
            /\ timerPending' = FALSE
            /\ settled' = Append(settled, Reject("AllFailed"))
       ELSE UNCHANGED <<terminated, workers, timeoutHandle, timerPending, settled>>
    /\ UNCHANGED <<clientVars, serverVars, testVars, uiVars, numCores, useWasm, threadsSupported,
                   called, argChallenge, argDifficulty, currentChallenge, currentDifficulty,
                   solutionFound, workersInitialized, totalAttempts, isWasmAvailable,
                   isWasmThreaded, progressCalls, wasmStatusCalls, firstSuccess, laneVars,
                   inbox>>

(***************************************************************************)
(* The client: solveChallenge of challenge_main.js.                        *)
(***************************************************************************)
\* the three validations of solveChallenge all pass
ValidPage ==
    /\ page.hasDifficulty /\ page.hasTimestamp /\ page.hasChallenge
    /\ ~ParseInt(page.difficulty).nan
    /\ ParseInt(page.difficulty).value > 0
    /\ page.timestamp # "" /\ page.challenge # ""

\* solveChallenge on a page that fails a validation: showError and return
SolveChallengeRejects ==
    /\ client = "loaded"
    /\ ~ValidPage
    /\ client' = "invalid"
    /\ errorsShown' = errorsShown + 1
    /\ progress' = 0
    /\ UNCHANGED <<serverVars, testVars, uiVars, page, workerSupport, submitted, response,
                   coordVars, laneVars, threadsSupported, terminated, inbox, chan>>

\* solveChallenge without window.Worker: showError, throw, showError of the catch
SolveChallengeNoWorker ==
    /\ client = "loaded"
    /\ ValidPage
    /\ ~workerSupport
    /\ client' = "failed"
    /\ errorsShown' = errorsShown + 2
    /\ progress' = 0
    /\ UNCHANGED <<serverVars, testVars, uiVars, page, workerSupport, submitted, response,
                   coordVars, laneVars, threadsSupported, terminated, inbox, chan>>

\* solveChallenge up to its await of workerPool.solve(challenge, difficulty, 30).
\* new WorkerPoolManager(path) leaves useWasm at its default, true; the caller
\* "direct" is a page script that passes useWasm = false and calls solve.
SolveChallenge(caller, failAt) ==
    /\ client = "loaded"
    /\ ValidPage
    /\ workerSupport
    /\ useWasm = (caller # "direct")
    /\ Solve(page.challenge, ParseInt(page.difficulty).value, caller, failAt)
    /\ client' = "solving"
    /\ progress' = 25
    /\ UNCHANGED <<serverVars, testVars, uiVars, page, workerSupport, submitted,
                   errorsShown, response>>

\* the submission of challenge_main.js:200-205
Submission(solution) ==
    [challenge |-> page.challenge, nonce |-> solution.nonce_str,
     timestamp |-> page.timestamp, difficulty |-> page.difficulty]

\* a continuation that submits whatever the outcome of solve
AwaitSolveSubmitsAlways ==
    /\ client = "solving"
    /\ settled # <<>>
    /\ submitted' = Append(submitted, Submission(settled[1].solution))
    /\ client' = "submitted"
    /\ progress' = 100
    /\ UNCHANGED <<serverVars, testVars, uiVars, page, workerSupport, errorsShown, response,
                   coordVars, laneVars, threadsSupported, terminated, inbox, chan>>

\* solveChallenge after its await: the promise of solve takes the outcome of
\* the first continuation invoked; fulfilled, the solution is submitted;
\* rejected, the catch shows the error
AwaitSolve ==
    /\ client = "solving"
    /\ settled # <<>>
    /\ IF settled[1].kind = "resolve"
       THEN /\ submitted' = Append(submitted, Submission(settled[1].solution))
            /\ client' = "submitted"
            /\ errorsShown' = errorsShown
            /\ progress' = 100
       ELSE /\ submitted' = submitted
            /\ client' = "failed"
            /\ errorsShown' = errorsShown + 1
            /\ progress' = 0
    /\ UNCHANGED <<serverVars, testVars, uiVars, page, workerSupport, response, coordVars, laneVars,
                   threadsSupported, terminated, inbox, chan>>

(***************************************************************************)
(* Lanes: the worker script wasm_pow_worker.js.                            *)
(***************************************************************************)
WasmNonceLimit == 12   \* nonces the accelerated search is followed over

\* wasmModule.solve_pow_challenge(challenge, difficulty) and
\* solve_pow_challenge_parallel(challenge, difficulty, numThreads): the search of
\* the compiled module, which is given neither startNonce nor nonceStep and
\* returns the first qualifying nonce counted from 0.
WasmHasResult(c, d) ==
    /\ c # Undefined
    /\ \E n \in 0..WasmNonceLimit : StartsWith(Sha256Hex(c, n), TargetPrefix(d))

WasmResult(c, d) ==
    CHOOSE n \in 0..WasmNonceLimit :
        /\ StartsWith(Sha256Hex(c, n), TargetPrefix(d))
        /\ \A k \in 0..(n - 1) : ~StartsWith(Sha256Hex(c, k), TargetPrefix(d))

\* the nonces the compiled search hashes on its way to the result
WasmTested(c, d) == 0..WasmResult(c, d)

\* workerScope.postMessage, once per element of msgs
Post(i, msgs) ==
    /\ chan' = [chan EXCEPT ![i] = @ \o msgs]
    /\ sent' = [sent EXCEPT ![i] = @ \o msgs]

\* onmessage, type 'init': loadWasmModule() and the init_complete reply.
\* loaded is the outcome of loadWasmModule.
LaneInit(i, loaded) ==
    /\ useWasm
    /\ wst[i] = "created" /\ ~terminated[i]
    /\ inbox[i] # <<>> /\ Head(inbox[i]).type = "init"
    /\ inbox' = [inbox EXCEPT ![i] = Tail(@)]
    /\ wst' = [wst EXCEPT ![i] = "idle"]
    /\ wUseWasm' = [wUseWasm EXCEPT ![i] = loaded]
    /\ wThreaded' = [wThreaded EXCEPT ![i] = loaded /\ threadsSupported]
    /\ Post(i, <<[Msg("init_complete") EXCEPT !.useWasm = loaded,
                                              !.wasmThreaded = loaded /\ threadsSupported]>>)
    /\ UNCHANGED <<coordVars, clientVars, serverVars, testVars, uiVars, threadsSupported,
                   terminated, job, nonce, attempts, lastReported, tested, wasmThrew>>

\* error events one worker may raise
MaxErrorEvents == 2

\* the worker script fails: the Worker object gets an error event and the
\* script never handles a message.  Every uncaught error of the worker raises
\* an event of its own, so a failed worker may raise more than one.
LaneScriptError(i) ==
    /\ wst[i] \in {"created", "crashed"} /\ ~terminated[i]
    /\ Cardinality({k \in 1..Len(sent[i]) : sent[i][k].type = "errorEvent"}) < MaxErrorEvents
    /\ wst' = [wst EXCEPT ![i] = "crashed"]
    /\ Post(i, <<Msg("errorEvent")>>)
    /\ UNCHANGED <<coordVars, clientVars, serverVars, testVars, uiVars, threadsSupported,
                   terminated, wUseWasm, wThreaded, job, nonce, attempts, lastReported,
                   tested, wasmThrew, inbox>>

\* a portable search that begins one stride after the lane's startNonce
SearchStartSecond(m) == m.startNonce + m.nonceStep

\* a portable search that ignores the lane's startNonce
SearchStartZero(m) == 0

\* the startNonce handed to calculatePowSolution by onmessage
SearchStart(m) == m.startNonce

\* onmessage, type 'solve', up to the first await that suspends the task:
\* the WASM call (returns or throws) or the entry into calculatePowSolution
LaneSolve(i, wasmThrows) ==
    /\ wst[i] = "idle" /\ ~terminated[i]
    /\ inbox[i] # <<>> /\ Head(inbox[i]).type = "solve"
    /\ inbox' = [inbox EXCEPT ![i] = Tail(@)]
    /\ LET m == Head(inbox[i])
           r == WasmResult(m.challenge, m.difficulty)
       IN
       /\ job' = [job EXCEPT ![i] = [challenge |-> m.challenge, difficulty |-> m.difficulty,
                                     startNonce |-> m.startNonce, nonceStep |-> m.nonceStep]]
       /\ IF wUseWasm[i] /\ ~wasmThrows
          THEN /\ WasmHasResult(m.challenge, m.difficulty)
               /\ wst' = [wst EXCEPT ![i] = "done"]
               /\ tested' = [tested EXCEPT ![i] = WasmTested(m.challenge, m.difficulty)]
               /\ Post(i, <<Msg("hashingStarted"),
                            [Msg("success") EXCEPT
                               !.solution = [nonce_str |-> ToDecimal(r),
                                             hash |-> Sha256Hex(m.challenge, r),
                                             attempts |-> 0],
                               !.useWasm = TRUE,
                               !.wasmThreaded = wThreaded[i]]>>)
               /\ UNCHANGED <<nonce, attempts, lastReported, wasmThrew>>
          ELSE /\ wasmThrows => wUseWasm[i]    \* only a WASM call can throw
               /\ wst' = [wst EXCEPT ![i] = "searching"]
               /\ wasmThrew' = [wasmThrew EXCEPT ![i] = wUseWasm[i]]
               /\ nonce' = [nonce EXCEPT ![i] = SearchStart(m)]
               /\ attempts' = [attempts EXCEPT ![i] = 0]
               /\ lastReported' = [lastReported EXCEPT ![i] = 0]
               /\ Post(i, <<Msg("hashingStarted")>>)
               /\ UNCHANGED tested
    /\ UNCHANGED <<coordVars, clientVars, serverVars, testVars, uiVars, threadsSupported,
                   terminated, wUseWasm, wThreaded>>

\* onmessage of pow_worker.js, the script the workers run when useWasm is
\* false.  It reads challenge, difficulty, startNonce and nonceStep from any
\* message.  An init message carries none of them: the target prefix is
\* "0".repeat(undefined), the empty text, so the first digest matches,
\* finalProgress is posted, and nonce.toString() throws on undefined; the
\* catch posts an error message.  No init_complete is posted.
PowWorkerMessage(i) ==
    /\ ~useWasm
    /\ wst[i] \in {"created", "idle"} /\ ~terminated[i]
    /\ inbox[i] # <<>>
    /\ inbox' = [inbox EXCEPT ![i] = Tail(@)]
    /\ LET m == Head(inbox[i])
           started == IF i = 0 THEN <<Msg("hashingStarted")>> ELSE <<>>
       IN IF m.type = "init"
          THEN /\ wst' = [wst EXCEPT ![i] = "idle"]
               /\ Post(i, started \o <<Msg("finalProgress"), Msg("error")>>)
               /\ UNCHANGED <<job, nonce, attempts, lastReported>>
          ELSE /\ wst' = [wst EXCEPT ![i] = "searching"]
               /\ job' = [job EXCEPT ![i] = [challenge |-> m.challenge,
                                             difficulty |-> m.difficulty,
                                             startNonce |-> m.startNonce,
                                             nonceStep |-> m.nonceStep]]
               /\ nonce' = [nonce EXCEPT ![i] = m.startNonce]
               /\ attempts' = [attempts EXCEPT ![i] = 0]
               /\ lastReported' = [lastReported EXCEPT ![i] = 0]
               /\ Post(i, started)
    /\ UNCHANGED <<coordVars, clientVars, serverVars, testVars, uiVars, threadsSupported,
                   terminated, wUseWasm, wThreaded, tested, wasmThrew>>

\* a safety limit that is never reached
CeilingNever(a) == FALSE

\* the safety limit of calculatePowSolution: if (attempts > 1000000) throw
CeilingPassed(a) == a > AttemptLimit

\* a search that reports its count as progress, not finalProgress, when it finds
LaneHashNoFinal(i) ==
    /\ wst[i] = "searching" /\ ~terminated[i]
    /\ tested' = [tested EXCEPT ![i] = @ \cup {nonce[i]}]
    /\ LET hash == Sha256Hex(job[i].challenge, nonce[i])
           a == attempts[i] + 1
           report == IF a % ProgressBatch = 0
                     THEN <<[Msg("progress") EXCEPT !.attempts = a - lastReported[i]]>>
                     ELSE <<>>
       IN IF StartsWith(hash, TargetPrefix(job[i].difficulty))
          THEN /\ wst' = [wst EXCEPT ![i] = "done"]
               /\ Post(i, <<[Msg("progress") EXCEPT !.attempts = attempts[i]],
                            [Msg("success") EXCEPT
                               !.solution = [nonce_str |-> ToDecimal(nonce[i]),
                                             hash |-> hash,
                                             attempts |-> attempts[i]],
                               !.useWasm = wUseWasm[i],
                               !.wasmThreaded = wThreaded[i]]>>)
               /\ UNCHANGED <<nonce, attempts, lastReported>>
          ELSE /\ nonce' = [nonce EXCEPT ![i] = @ + job[i].nonceStep]
               /\ attempts' = [attempts EXCEPT ![i] = a]
               /\ lastReported' = [lastReported EXCEPT ![i] =
                                      IF a % ProgressBatch = 0 THEN a ELSE @]
               /\ IF CeilingPassed(a)
                  THEN /\ wst' = [wst EXCEPT ![i] = "failed"]
                       /\ Post(i, report \o <<Msg("error")>>)
                  ELSE /\ wst' = wst
                       /\ Post(i, report)
    /\ UNCHANGED <<coordVars, clientVars, serverVars, testVars, uiVars, threadsSupported,
                   terminated, wUseWasm, wThreaded, job, wasmThrew, inbox>>

\* one iteration of the loop of calculatePowSolution (it suspends at
\* await crypto.subtle.digest), with what follows its return or its throw in
\* onmessage: the success message or the error message of the catch
LaneHash(i) ==
    /\ wst[i] = "searching" /\ ~terminated[i]
    /\ tested' = [tested EXCEPT ![i] = @ \cup {nonce[i]}]
    /\ LET hash == Sha256Hex(job[i].challenge, nonce[i])
           a == attempts[i] + 1
           report == IF a % ProgressBatch = 0
                     THEN <<[Msg("progress") EXCEPT !.attempts = a - lastReported[i]]>>
                     ELSE <<>>
       IN IF StartsWith(hash, TargetPrefix(job[i].difficulty))
          THEN /\ wst' = [wst EXCEPT ![i] = "done"]
               /\ Post(i, <<[Msg("finalProgress") EXCEPT !.attempts = attempts[i]],
                            [Msg("success") EXCEPT
                               !.solution = [nonce_str |-> ToDecimal(nonce[i]),
                                             hash |-> hash,
                                             attempts |-> attempts[i]],
                               !.useWasm = wUseWasm[i],
                               !.wasmThreaded = wThreaded[i]]>>)
               /\ UNCHANGED <<nonce, attempts, lastReported>>
          ELSE /\ nonce' = [nonce EXCEPT ![i] = @ + job[i].nonceStep]
               /\ attempts' = [attempts EXCEPT ![i] = a]
               /\ lastReported' = [lastReported EXCEPT ![i] =
                                      IF a % ProgressBatch = 0 THEN a ELSE @]
               /\ IF CeilingPassed(a)
                  THEN /\ wst' = [wst EXCEPT ![i] = "failed"]
                       /\ Post(i, report \o <<Msg("error")>>)
                  ELSE /\ wst' = wst
                       /\ Post(i, report)
    /\ UNCHANGED <<coordVars, clientVars, serverVars, testVars, uiVars, threadsSupported,
                   terminated, wUseWasm, wThreaded, job, wasmThrew, inbox>>

Next ==
    \/ SolveChallengeRejects
    \/ SolveChallengeNoWorker
    \/ \E caller \in {"challenge_main", "legacy", "direct"}, failAt \in 0..numCores :
          SolveChallenge(caller, failAt)
    \/ AwaitSolve
    \/ Timeout
    \/ \E i \in Lanes : HandleWorkerMessage(i)
    \/ \E i \in Lanes : HandleWorkerError(i)
    \/ \E i \in Lanes, loaded \in BOOLEAN : LaneInit(i, loaded)
    \/ \E i \in Lanes : LaneScriptError(i)
    \/ \E i \in Lanes : PowWorkerMessage(i)
    \/ \E i \in Lanes, wasmThrows \in BOOLEAN : LaneSolve(i, wasmThrows)
    \/ \E i \in Lanes : LaneHash(i)

Spec == Init /\ [][Next]_vars

TypeOK ==
    /\ numCores \in 1..MaxCores
    /\ workersInitialized \in 0..numCores
    /\ \A i \in Lanes : wst[i] \in {"absent", "created", "idle", "searching", "done",
                                      "failed", "crashed"}

(***************************************************************************)
(* Server: the Verifier.  Its code is not among the files of the client;   *)
(* it is written down from its specification: signature, then freshness,   *)
(* then difficulty, the first failing check giving the reason.             *)
(***************************************************************************)
MaxClock == 3           \* the clock and the issuance times range over 0..MaxClock
FreshnessWindow == 1    \* the accepted age of a challenge (120 s in the scenario)
VerifyNonceMax == 5     \* verify is called with the nonces 0..VerifyNonceMax

NoSignature == -1       \* a request that carries no signature
SecretKey == 13         \* the server-held secret of the authentication tag
SigModulus == 97        \* the tags are the numbers below SigModulus

\* the authentication tag over (challenge_string, difficulty, issued_at)
Sign(c, d, t) == (ChallengeSeed(c) + 5 * d + 11 * t + SecretKey) % SigModulus

\* a freshness check that passes whatever the age
FreshAlways(now, t) == TRUE

\* now - issued_at is within the freshness window
Fresh(now, t) == (now - t) \in 0..FreshnessWindow

\* the leading-difficulty-nibble rule on the recomputed digest
MeetsDifficulty(c, nonceStr, d) ==
    StartsWith(Sha256Hex(c, ParseDecimal(nonceStr)), TargetPrefix(d))

\* a verify that checks the freshness before the signature
VerifyFreshnessFirst(c, nonceStr, d, t, sig, now) ==
    IF ~Fresh(now, t) THEN "Expired"
    ELSE IF sig # NoSignature /\ sig # Sign(c, d, t) THEN "SignatureInvalid"
    ELSE IF ~MeetsDifficulty(c, nonceStr, d) THEN "DifficultyNotMet"
    ELSE "Accepted"

\* verify(challenge, nonce, difficulty, issued_at, signature?) at clock reading now
Verify(c, nonceStr, d, t, sig, now) ==
    IF sig # NoSignature /\ sig # Sign(c, d, t) THEN "SignatureInvalid"
    ELSE IF ~Fresh(now, t) THEN "Expired"
    ELSE IF ~MeetsDifficulty(c, nonceStr, d) THEN "DifficultyNotMet"
    ELSE "Accepted"

\* the tags the server has issued for some difficulty and issuance time
IssuedTags == {Sign(c, d, t) : c \in Challenges, d \in 0..MaxDifficulty, t \in 0..MaxClock}

\* the server verifies a request; a behaviour follows one request
ServerVerify(c, n, d, t, sig) ==
    /\ ~lastVerify.called
    /\ lastVerify' = [called |-> TRUE, challenge |-> c, nonce |-> ToDecimal(n),
                      difficulty |-> d, issuedAt |-> t, signature |-> sig, now |-> clock,
                      result |-> Verify(c, ToDecimal(n), d, t, sig, clock)]
    /\ UNCHANGED <<clock, replay, solverVars, testVars>>

\* a verifier that keeps the accepted requests and refuses to accept one twice
ReplayRefusesSeen(v, now) ==
    IF v.result = "Accepted" THEN "Replayed"
    ELSE Verify(v.challenge, v.nonce, v.difficulty, v.issuedAt, v.signature, now)

\* the result of verify called again with the arguments of the call v: the
\* verifier keeps nothing of its earlier calls
ReplayResult(v, now) ==
    Verify(v.challenge, v.nonce, v.difficulty, v.issuedAt, v.signature, now)

\* the server is sent the same request again and verifies it again
ServerReplay ==
    /\ lastVerify.called
    /\ replay' = [called |-> TRUE, now |-> clock, result |-> ReplayResult(lastVerify, clock)]
    /\ UNCHANGED <<clock, lastVerify, solverVars, testVars>>

\* a second passes on the server
Tick ==
    /\ clock < MaxClock
    /\ clock' = clock + 1
    /\ UNCHANGED <<lastVerify, replay, solverVars, testVars>>

\* the server alone, in front of a client that does nothing
VerifierInit ==
    /\ Init
    /\ numCores = 1
    /\ useWasm
    /\ ~threadsSupported
    /\ ~workerSupport
    /\ ~page.hasDifficulty /\ ~page.hasTimestamp /\ ~page.hasChallenge

VerifierNext ==
    \/ Tick
    \/ ServerReplay
    \/ \E c \in Challenges, n \in 0..VerifyNonceMax, d \in 0..MaxDifficulty,
          t \in 0..MaxClock, sig \in {NoSignature} \cup IssuedTags :
          ServerVerify(c, n, d, t, sig)

VerifierSpec == VerifierInit /\ [][VerifierNext]_vars

(***************************************************************************)
(* Properties.                                                             *)
(***************************************************************************)
\* n is in the subsequence start, start + step, start + 2*step, ...
OnSubsequence(n, start, step) == n >= start /\ (n - start) % step = 0

\* the assignments lane i has been sent: solve messages waiting in its inbox
\* and the one it is working on
Assignments(i) ==
    {[startNonce |-> inbox[i][k].startNonce, nonceStep |-> inbox[i][k].nonceStep] :
        k \in {x \in 1..Len(inbox[i]) : inbox[i][x].type = "solve"}}
    \cup (IF job[i] = NoJob THEN {}
          ELSE {[startNonce |-> job[i].startNonce, nonceStep |-> job[i].nonceStep]})

SolveDispatched == \E i \in Lanes : Assignments(i) # {}

\* C1: every dispatched solve message gives lane i startNonce = i and
\* nonceStep = numCores, and each integer of [0, MaxBound), hence of [0, M)
\* for every bound M <= MaxBound, lies on the subsequence of exactly one lane.
C1_Partition ==
    /\ \A i \in Lanes : \A a \in Assignments(i) :
          a.startNonce = i /\ a.nonceStep = numCores
    /\ SolveDispatched =>
          \A m \in 0..(MaxBound - 1) :
             Cardinality({i \in Lanes : \E a \in Assignments(i) :
                             OnSubsequence(m, a.startNonce, a.nonceStep)}) = 1

C1_Witness == numCores = MaxCores /\ \A i \in Lanes : Assignments(i) # {}

\* C2: no nonce is hashed by two different lanes, and every nonce a lane has
\* hashed lies on its assigned subsequence, on the WASM path as on the JS path.
C2_DisjointLanes ==
    /\ \A i \in Lanes : \A j \in Lanes : i # j => tested[i] \cap tested[j] = {}
    /\ \A i \in Lanes : \A n \in tested[i] :
          OnSubsequence(n, job[i].startNonce, job[i].nonceStep)

Resolutions == {k \in 1..Len(settled) : settled[k].kind = "resolve"}

Created(i) == wst[i] # "absent"

\* C3: once the coordinator has processed a first success message, resolve has
\* been invoked with the solution of that message and with no other; every
\* step taken after it leaves the settlements, totalAttempts and
\* workersInitialized unchanged and invokes neither onProgress nor onWasmStatus.
C3_FirstSuccessWins ==
    /\ [](firstSuccess # <<>> =>
            /\ solutionFound
            /\ Resolutions # {}
            /\ \A k \in Resolutions : settled[k] = Resolve(firstSuccess[1]))
    /\ [][solutionFound =>
            /\ settled' = settled
            /\ totalAttempts' = totalAttempts
            /\ workersInitialized' = workersInitialized
            /\ progressCalls' = progressCalls
            /\ wasmStatusCalls' = wasmStatusCalls]_vars

\* a second success message, carrying another nonce, has been processed
C3_Witness ==
    /\ solutionFound
    /\ \E i \in Lanes :
          /\ chan[i] = <<>>
          /\ sent[i] # <<>>
          /\ sent[i][Len(sent[i])].type = "success"
          /\ sent[i][Len(sent[i])].solution # firstSuccess[1].solution

\* C4: every solution solve resolves with solves the challenge and difficulty
\* passed to solve: the digest of challenge ":" nonce starts with `difficulty`
\* zero nibbles, where nonce is the server's reading of nonce_str.
C4_RoundTrip ==
    \A k \in Resolutions :
       StartsWith(Sha256Hex(argChallenge, ParseDecimal(settled[k].solution.nonce_str)),
                  TargetPrefix(argDifficulty))

\* the step is the timer callback: the pending timer is consumed and the step is
\* neither the acceptance of a solution nor the handling of an error event
TimerFires ==
    /\ timerPending /\ ~timerPending'
    /\ solutionFound' = solutionFound
    /\ failedWorkers' = failedWorkers

\* C5: when the timer fires and no solution has been accepted, all lanes are
\* terminated and reject is invoked with the Timeout error; the timer is never
\* armed once a solution is accepted, so no Timeout rejection follows a resolve.
C5_Timeout ==
    /\ [](solutionFound => ~timerPending)
    /\ [](\A k \in Resolutions : \A j \in (k + 1)..Len(settled) :
             settled[j].error # "Timeout")
    /\ [][(TimerFires /\ ~solutionFound) =>
            /\ settled' = Append(settled, Reject("Timeout"))
            /\ workers' = <<>>
            /\ \A i \in Lanes : Created(i) => terminated'[i]]_vars

C5_Witness ==
    /\ \E k \in 1..Len(settled) : settled[k].error = "Timeout"
    /\ \E i \in Lanes : wst[i] = "searching" /\ terminated[i]

\* the lane has failed and the coordinator has processed its failure report
LaneFailureProcessed(i) == wst[i] \in {"failed", "crashed"} /\ chan[i] = <<>>

\* C6: once every lane has failed (error event or error message) and the
\* coordinator has processed every failure, solve has been rejected: with the
\* all-lanes-failed error unless the timeout came first.
C6_AllFailedRejects ==
    (called /\ \A i \in Lanes : LaneFailureProcessed(i)) =>
        /\ settled # <<>>
        /\ \/ settled[1].error = "Timeout"
           \/ \E k \in 1..Len(settled) : settled[k].error = "AllFailed"

\* C7: while the solve is pending, if some lane has failed before reporting
\* init_complete and every other lane has reported init_complete, the other
\* lanes have been sent their solve message.
C7_SingleFailureTolerated ==
    ( /\ settled = <<>>
      /\ \E i \in Lanes : wst[i] = "crashed" /\ chan[i] = <<>>
      /\ \E j \in Lanes : wst[j] # "crashed"
      /\ \A j \in Lanes : wst[j] # "crashed" =>
            /\ wst[j] \notin {"absent", "created"}
            /\ \A k \in 1..Len(chan[j]) : chan[j][k].type # "init_complete" )
    => \A j \in Lanes : wst[j] # "crashed" => Assignments(j) # {}

\* C8: once solve has settled, on any path, terminate() has been called on
\* every worker created, this.workers is empty and no timer is armed.
C8_NoLeak ==
    settled # <<>> =>
        /\ workers = <<>>
        /\ ~timerPending
        /\ ~timeoutHandle
        /\ \A i \in Lanes : Created(i) => terminated[i]

\* settled by a success while another lane was still searching
C8_Witness ==
    /\ Resolutions # {}
    /\ \E i \in Lanes : wst[i] = "searching" /\ terminated[i]

\* C9: in every execution at most one of the resolve/reject continuations is
\* invoked, and it is invoked at most once.
C9_SettledOnce == Len(settled) <= 1

\* the lane searches with the portable implementation
Portable(i) == wst[i] \in {"searching", "done", "failed"} /\ (~wUseWasm[i] \/ wasmThrew[i])

\* C10: a lane whose WASM module cannot be loaded replies init_complete with
\* useWasm = false; a lane without WASM, or whose WASM call threw, hashes only
\* nonces of its assigned subsequence, reports a found nonce of that
\* subsequence as success, and emits error only after its portable search has
\* passed the attempt ceiling.  The lanes are those of wasm_pow_worker.js,
\* the script a coordinator with useWasm = true starts.
C10_WasmFallback ==
    useWasm => \A i \in Lanes :
       /\ (wst[i] \notin {"absent", "created", "crashed"} /\ ~wUseWasm[i]) =>
             /\ sent[i][1].type = "init_complete"
             /\ ~sent[i][1].useWasm
       /\ Portable(i) =>
             /\ \A n \in tested[i] \cup {nonce[i]} :
                   OnSubsequence(n, job[i].startNonce, job[i].nonceStep)
             /\ nonce[i] = job[i].startNonce + attempts[i] * job[i].nonceStep
             /\ wst[i] = "done" =>
                   /\ sent[i][Len(sent[i])].type = "success"
                   /\ sent[i][Len(sent[i])].solution.nonce_str = ToDecimal(nonce[i])
             /\ wst[i] = "searching" =>
                   \A k \in 1..Len(sent[i]) : sent[i][k].type \notin {"error", "success"}
       /\ (\E k \in 1..Len(sent[i]) : sent[i][k].type = "error") =>
             /\ wst[i] = "failed"
             /\ attempts[i] > AttemptLimit
             /\ \A n \in tested[i] :
                   ~StartsWith(Sha256Hex(job[i].challenge, n), TargetPrefix(job[i].difficulty))

\* one lane found its nonce without WASM, another after its WASM call threw
C10_Witness ==
    \E i \in Lanes : \E j \in Lanes :
       /\ wst[i] = "done" /\ ~wUseWasm[i]
       /\ wst[j] = "done" /\ wUseWasm[j] /\ wasmThrew[j]

\* the lane has begun its search
Started(i) == wst[i] \in {"searching", "done", "failed"}

\* the lane answers its solve message with the compiled search
Accelerated(i) == wUseWasm[i] /\ ~wasmThrew[i]

\* C11: all lanes of a solve search with the same execution strategy: of two
\* lanes that have begun their search, either both use the accelerated path or
\* both use the portable path.
C11_SingleStrategy ==
    \A i \in Lanes : \A j \in Lanes :
       (Started(i) /\ Started(j)) => (Accelerated(i) <=> Accelerated(j))

\* the digest of the k-th nonce of lane i's assignment meets the difficulty
QualifiesAt(i, k) ==
    StartsWith(Sha256Hex(job[i].challenge, job[i].startNonce + k * job[i].nonceStep),
               TargetPrefix(job[i].difficulty))

\* the messages of type t lane i has posted
SentOfType(i, t) == {k \in 1..Len(sent[i]) : sent[i][k].type = t}

\* C12: a portable lane never computes more than AttemptLimit + 1 digests (the
\* ceiling is passed when attempts > AttemptLimit); a lane none of whose first
\* AttemptLimit + 1 nonces qualifies never posts success; a lane that has
\* passed the ceiling has posted exactly one error message, as its last
\* message, and from then on hashes nothing and posts nothing.
C12_CeilingStops ==
    /\ [](\A i \in Lanes :
            /\ attempts[i] <= AttemptLimit + 1
            /\ Portable(i) => Cardinality(tested[i]) <= AttemptLimit + 1
            /\ (Portable(i) /\ \A k \in 0..AttemptLimit : ~QualifiesAt(i, k)) =>
                  SentOfType(i, "success") = {}
            /\ wst[i] = "failed" =>
                  /\ attempts[i] = AttemptLimit + 1
                  /\ Cardinality(tested[i]) = AttemptLimit + 1
                  /\ Cardinality(SentOfType(i, "error")) = 1
                  /\ sent[i][Len(sent[i])].type = "error"
                  /\ SentOfType(i, "success") = {})
    /\ [][\A i \in Lanes : wst[i] = "failed" =>
            /\ wst'[i] = "failed"
            /\ tested'[i] = tested[i]
            /\ sent'[i] = sent[i]]_vars

\* one lane passed the ceiling while another found its nonce with the last
\* digest the ceiling allows
C12_Witness ==
    \E i \in Lanes : \E j \in Lanes :
       /\ wst[i] = "failed" /\ chan[i] = <<>>
       /\ wst[j] = "done" /\ Portable(j) /\ Cardinality(tested[j]) = AttemptLimit + 1

\* the digests lane i has computed that did not meet the difficulty
FailedDigests(i) ==
    Cardinality({n \in tested[i] :
                    ~StartsWith(Sha256Hex(job[i].challenge, n),
                                TargetPrefix(job[i].difficulty))})

\* C13: on either execution path a lane has posted one progress message per
\* completed batch of ProgressBatch attempts, and each of them carries the
\* attempts made since the lane's previous report, which is one batch.
C13_ProgressEveryBatch ==
    \A i \in Lanes :
       Started(i) =>
          /\ Cardinality(SentOfType(i, "progress")) = FailedDigests(i) \div ProgressBatch
          /\ \A k \in SentOfType(i, "progress") : sent[i][k].attempts = ProgressBatch

\* the messages of lane i the coordinator has handled so far
Delivered(i) == SubSeq(sent[i], 1, Len(sent[i]) - Len(chan[i]))

\* the sum of the attempts fields of the progress messages of a sequence
RECURSIVE SumProgress(_)
SumProgress(s) ==
    IF s = <<>> THEN 0
    ELSE (IF Head(s).type = "progress" THEN Head(s).attempts ELSE 0) + SumProgress(Tail(s))

\* the same sum over the handled messages of lanes 0..n-1
RECURSIVE SumDelivered(_)
SumDelivered(n) ==
    IF n = 0 THEN 0 ELSE SumProgress(Delivered(n - 1)) + SumDelivered(n - 1)

\* C14: while no solution has been accepted, totalAttempts is the sum of the
\* attempts deltas of the progress messages handled so far, whatever their
\* interleaving across lanes; no step decreases totalAttempts, and a step that
\* invokes onProgress passes a total that is not below the total before it.
C14_MonotoneTotal ==
    /\ [](~solutionFound => totalAttempts = SumDelivered(numCores))
    /\ [](solutionFound => totalAttempts <= SumDelivered(numCores))
    /\ [][totalAttempts' >= totalAttempts]_vars
    /\ [][progressCalls' # progressCalls =>
            /\ progressCalls' = progressCalls + 1
            /\ totalAttempts' >= totalAttempts]_vars

\* progress messages of two lanes have been added up
C14_Witness ==
    /\ numCores = 2
    /\ SumProgress(Delivered(0)) > 0
    /\ SumProgress(Delivered(1)) > 0
    /\ totalAttempts = SumProgress(Delivered(0)) + SumProgress(Delivered(1))
    /\ progressCalls >= 2

\* C15: once the coordinator has cancelled the lanes (it settles the solve on
\* success, on timeout or on total failure and calls terminate() in the same
\* task), no lane computes another digest: the digests computed after the
\* cancellation number zero, which is below one batch of ProgressBatch.
C15_CancelBound ==
    /\ [][settled # <<>> => tested' = tested]_vars
    /\ [][\A i \in Lanes : terminated[i] =>
            /\ tested'[i] = tested[i]
            /\ sent'[i] = sent[i]]_vars

\* lanes cancelled in the middle of a search, one of them inside a batch
C15_Witness ==
    /\ settled # <<>>
    /\ \A i \in Lanes : wst[i] = "searching" /\ terminated[i]
    /\ \E i \in Lanes : attempts[i] % ProgressBatch # 0

\* lane i posted the success message whose solution the k-th settlement carries
FoundBy(i, k) ==
    \E x \in SentOfType(i, "success") : sent[i][x].solution = settled[k].solution

\* C16: the attempts field of every solution solve resolves with equals the
\* number of digests computed by the lane that found it, on either path.
C16_AttemptsIsCost ==
    \A k \in Resolutions : \A i \in Lanes :
       FoundBy(i, k) => settled[k].solution.attempts = Cardinality(tested[i])

\* C17: the client calls submitSolution at most once, and only when the first
\* outcome of solve is a resolution; the submitted challenge, timestamp and
\* difficulty are the texts read from the page and the submitted nonce is the
\* nonce_str of the resolved solution; when the first outcome of solve is a
\* rejection, or there is no Worker support, nothing is ever submitted.
C17_SubmitOnce ==
    /\ [](Len(submitted) <= 1)
    /\ [](submitted # <<>> =>
            /\ settled # <<>>
            /\ settled[1].kind = "resolve"
            /\ submitted[1].challenge = page.challenge
            /\ submitted[1].timestamp = page.timestamp
            /\ submitted[1].difficulty = page.difficulty
            /\ submitted[1].nonce = settled[1].solution.nonce_str)
    /\ []((settled # <<>> /\ settled[1].kind = "reject") => submitted = <<>>)
    /\ [](~workerSupport => submitted = <<>>)
    /\ [][submitted' # submitted => (client = "solving" /\ Resolutions # {})]_vars

\* a solution was submitted for a difficulty text that is not plain digits, and
\* every message of the lanes has been handled
C17_Witness ==
    /\ client = "submitted"
    /\ submitted # <<>>
    /\ submitted[1].difficulty = <<1, OtherChar>>
    /\ \A i \in Lanes : chan[i] = <<>>

\* the page passes the validation as the claim states it: the three fields are
\* there and the difficulty parses to an integer that is not negative
AcceptableAsClaimed ==
    /\ page.hasDifficulty /\ page.hasTimestamp /\ page.hasChallenge
    /\ page.timestamp # "" /\ page.challenge # ""
    /\ ~ParseInt(page.difficulty).nan
    /\ ParseInt(page.difficulty).value >= 0

\* C18: in a browser with Worker support, once solveChallenge has run, solve
\* has been called exactly when the three fields are present and the
\* difficulty parses to a non-negative integer, 0 included; otherwise an error
\* is shown, no worker is created and nothing is submitted.
C18_StartsWhenValid ==
    (workerSupport /\ client # "loaded") =>
        /\ called <=> AcceptableAsClaimed
        /\ ~called =>
              /\ errorsShown >= 1
              /\ \A i \in Lanes : ~Created(i)
              /\ submitted = <<>>

\* the number of leading zero nibbles of a digest
RECURSIVE LeadingZeros(_)
LeadingZeros(hash) ==
    IF hash = <<>> \/ Head(hash) # 0 THEN 0 ELSE 1 + LeadingZeros(Tail(hash))

\* the digest of the last verified request
LastDigest == Sha256Hex(lastVerify.challenge, ParseDecimal(lastVerify.nonce))

\* the age of the last verified request at its verification
LastAge == lastVerify.now - lastVerify.issuedAt

\* C19: a request without signature is accepted if and only if its digest has
\* at least `difficulty` leading zero nibbles and its age now - issued_at is
\* within the freshness window; a request whose digest qualifies and whose age
\* is beyond the window is rejected as Expired.
C19_VerifyIff ==
    (lastVerify.called /\ lastVerify.signature = NoSignature) =>
        /\ lastVerify.result = "Accepted" <=>
              /\ LeadingZeros(LastDigest) >= lastVerify.difficulty
              /\ LastAge >= 0 /\ LastAge <= FreshnessWindow
        /\ (LeadingZeros(LastDigest) >= lastVerify.difficulty /\ LastAge > FreshnessWindow) =>
              lastVerify.result = "Expired"

\* a nonce that meets a positive difficulty, verified after the window
C19_Witness ==
    /\ lastVerify.called /\ lastVerify.signature = NoSignature
    /\ lastVerify.difficulty >= 1
    /\ LeadingZeros(LastDigest) >= lastVerify.difficulty
    /\ LastAge > FreshnessWindow
    /\ lastVerify.result = "Expired"

\* the signature of the last verified request is the tag of its fields
LastSignatureValid ==
    lastVerify.signature = Sign(lastVerify.challenge, lastVerify.difficulty, lastVerify.issuedAt)

\* C20: verify reports the first failing check in the order signature,
\* freshness, difficulty: a request whose signature is present and does not
\* match is SignatureInvalid whatever its age and digest; a request whose
\* signature is absent or matches and whose age is outside the window is
\* Expired whatever its digest; a fresh one whose digest misses the difficulty
\* is DifficultyNotMet.
C20_CheckOrder ==
    lastVerify.called =>
        LET sigBad == lastVerify.signature # NoSignature /\ ~LastSignatureValid
            stale == LastAge < 0 \/ LastAge > FreshnessWindow
            miss == LeadingZeros(LastDigest) < lastVerify.difficulty
        IN /\ sigBad => lastVerify.result = "SignatureInvalid"
           /\ (~sigBad /\ stale) => lastVerify.result = "Expired"
           /\ (~sigBad /\ ~stale /\ miss) => lastVerify.result = "DifficultyNotMet"

\* a tag issued for difficulty 2 sent with difficulty 1, after the window and
\* with a digest that misses the difficulty
C20_Witness ==
    /\ lastVerify.called
    /\ lastVerify.difficulty = 1
    /\ lastVerify.signature = Sign(lastVerify.challenge, 2, lastVerify.issuedAt)
    /\ LastAge > FreshnessWindow
    /\ LeadingZeros(LastDigest) < lastVerify.difficulty
    /\ lastVerify.result = "SignatureInvalid"

Elapse ==
    /\ nowMs < StartMs + MaxElapsed
    /\ nowMs' = nowMs + 1
    /\ UNCHANGED <<lastUIUpdate, statusTimes, clientVars, coordVars, laneVars, serverVars, testVars,
                   threadsSupported, terminated, inbox, chan>>

TimedInit ==
    /\ Init
    /\ numCores = MaxCores
    /\ useWasm
    /\ ~threadsSupported
    /\ workerSupport
    /\ page = [hasDifficulty |-> TRUE, difficulty |-> ToDecimal(MaxDifficulty),
               hasTimestamp |-> TRUE, timestamp |-> Timestamp,
               hasChallenge |-> TRUE, challenge |-> "abc123"]

TimedNext ==
    \/ Elapse
    \/ SolveChallenge("challenge_main", numCores)
    \/ AwaitSolve
    \/ Timeout
    \/ \E i \in Lanes : HandleWorkerMessage(i)
    \/ \E i \in Lanes : LaneInit(i, FALSE)
    \/ \E i \in Lanes : LaneSolve(i, FALSE)
    \/ \E i \in Lanes : LaneHash(i)

TimedSpec == TimedInit /\ [][TimedNext]_vars

\* C22: two consecutive status updates made for progress reports are more than
\* the interval apart on the page's clock, and a progress report adds its
\* attempts to totalAttempts and leaves the promise as it was whether or not
\* its status update is shown.
C22_Coalesced ==
    /\ [](\A k \in 2..Len(statusTimes) : statusTimes[k] - statusTimes[k - 1] > UiInterval)
    /\ [][progressCalls' # progressCalls =>
            /\ \E i \in Lanes :
                  /\ chan[i] # <<>>
                  /\ Head(chan[i]).type = "progress"
                  /\ chan' = [chan EXCEPT ![i] = Tail(@)]
                  /\ totalAttempts' = totalAttempts + Head(chan[i]).attempts
            /\ settled' = settled
            /\ solutionFound' = solutionFound
            /\ workers' = workers
            /\ Len(statusTimes') > Len(statusTimes) => nowMs - lastUIUpdate > UiInterval]_vars

\* two progress reports have each been shown
C22_Witness == progressCalls = 2 /\ Len(statusTimes) = 2

\* the solve messages lane i has been sent: those waiting in its inbox and the
\* one it has taken up
SolveCount(i) ==
    Cardinality({k \in 1..Len(inbox[i]) : inbox[i][k].type = "solve"})
    + (IF job[i] = NoJob THEN 0 ELSE 1)

\* lane i has handled its init message and the coordinator has handled the reply
InitFinished(i) ==
    /\ wst[i] \in {"idle", "searching", "done", "failed"}
    /\ \A k \in 1..Len(inbox[i]) : inbox[i][k].type # "init"
    /\ \E k \in 1..Len(Delivered(i)) : Delivered(i)[k].type = "init_complete"

\* C23: no lane is ever sent solve twice; when some lane has been sent solve,
\* every one of the numCores lanes has been created, has handled its init and
\* had its init_complete processed, and has been sent solve exactly once.
C23_InitBeforeSolve ==
    /\ \A i \in Lanes : SolveCount(i) <= 1
    /\ (\E i \in Lanes : SolveCount(i) >= 1) =>
          /\ workersInitialized = numCores
          /\ \A j \in Lanes : InitFinished(j) /\ SolveCount(j) = 1

\* with several lanes, every lane has been sent its solve and one has taken it up
C23_Witness ==
    /\ numCores >= 2
    /\ \A i \in Lanes : SolveCount(i) = 1
    /\ \E i \in Lanes : job[i] # NoJob
    /\ \E i \in Lanes : job[i] = NoJob

\* lane i runs pow_worker.js, has handled every message posted to it, and the
\* coordinator has handled everything the lane posted
PowWorkerQuiet(i) == ~useWasm /\ wst[i] = "idle" /\ inbox[i] = <<>> /\ chan[i] = <<>>

\* C24: a coordinator constructed with useWasm = false dispatches the challenge:
\* once every lane has handled its init message and the coordinator has handled
\* the lanes' replies, with the promise still unsettled, every lane has
\* been sent its solve message.
C24_PortableDispatches ==
    (/\ called
     /\ settled = <<>>
     /\ Len(workers) = numCores
     /\ \A i \in Lanes : PowWorkerQuiet(i))
    => \A i \in Lanes : SolveCount(i) = 1

\* C25: a success message of a portable lane names a nonce of the lane's own
\* subsequence whose digest, the one reported, meets the lane's difficulty, and
\* every earlier nonce of that subsequence has been hashed by the lane and failed.
C25_SmallestOnLane ==
    \A i \in Lanes : Portable(i) =>
       \A k \in SentOfType(i, "success") :
          LET n == ParseDecimal(sent[i][k].solution.nonce_str) IN
          /\ OnSubsequence(n, job[i].startNonce, job[i].nonceStep)
          /\ n \in tested[i]
          /\ sent[i][k].solution.hash = Sha256Hex(job[i].challenge, n)
          /\ StartsWith(Sha256Hex(job[i].challenge, n), TargetPrefix(job[i].difficulty))
          /\ \A e \in 0..(n - 1) :
                OnSubsequence(e, job[i].startNonce, job[i].nonceStep) =>
                   /\ e \in tested[i]
                   /\ ~StartsWith(Sha256Hex(job[i].challenge, e),
                                  TargetPrefix(job[i].difficulty))

\* a portable lane that does not start at 0 reported the third nonce of its
\* subsequence after the first two had failed
C25_Witness ==
    \E i \in Lanes :
       /\ Portable(i) /\ SentOfType(i, "success") # {}
       /\ job[i].startNonce > 0
       /\ nonce[i] = job[i].startNonce + 2 * job[i].nonceStep
       /\ Cardinality(tested[i]) = 3

\* C26: solve is rejected with the all-lanes-failed error only when each of the
\* numCores lanes has failed, by an uncaught error or by giving up its search.
C26_DistinctLanes ==
    (\E k \in 1..Len(settled) : settled[k].error = "AllFailed")
    => \A i \in Lanes : wst[i] \in {"failed", "crashed"}

(***************************************************************************)
(* Liveness.  The callback armed by setTimeout is run by the page's event  *)
(* loop once its delay has passed, unless clearTimeout has disarmed it:    *)
(* the timer step is weakly fair.  Nothing is assumed of the lanes.  One   *)
(* valid page is followed, with either worker script.                      *)
(***************************************************************************)
LiveInit ==
    /\ Init
    /\ ~threadsSupported
    /\ workerSupport
    /\ page = [hasDifficulty |-> TRUE, difficulty |-> ToDecimal(MaxDifficulty),
               hasTimestamp |-> TRUE, timestamp |-> Timestamp,
               hasChallenge |-> TRUE, challenge |-> "abc123"]

LiveNext ==
    \/ \E caller \in {"challenge_main", "direct"}, failAt \in 0..numCores :
          SolveChallenge(caller, failAt)
    \/ AwaitSolve
    \/ Timeout
    \/ \E i \in Lanes : HandleWorkerMessage(i)
    \/ \E i \in Lanes : HandleWorkerError(i)
    \/ \E i \in Lanes, loaded \in BOOLEAN : LaneInit(i, loaded)
    \/ \E i \in Lanes : LaneScriptError(i)
    \/ \E i \in Lanes : PowWorkerMessage(i)
    \/ \E i \in Lanes, wasmThrows \in BOOLEAN : LaneSolve(i, wasmThrows)
    \/ \E i \in Lanes : LaneHash(i)

LiveSpec == LiveInit /\ [][LiveNext]_vars /\ WF_vars(Timeout)

\* C27: a call of solve is eventually settled, and it is settled once its
\* timer is no longer pending, whether the timer fired or was cleared.
C27_Settles ==
    /\ called ~> (settled # <<>>)
    /\ []((called /\ ~timerPending) => settled # <<>>)

\* solve was settled by its timer while a lane was in its search and another
\* had not taken up its solve message
C27_Witness ==
    /\ Len(settled) = 1 /\ settled[1].error = "Timeout"
    /\ \E i \in Lanes : wst[i] = "searching" /\ attempts[i] > 0
    /\ \E i \in Lanes : wst[i] = "idle"

\* C28: once solve has rejected because a worker could not be created, every
\* worker created before the failure has been terminated without having run,
\* no worker after the failing one exists, no timer is armed, no lane has been
\* sent a solve message, and nothing else settles the promise.
C28_InitFailure ==
    (settled # <<>> /\ settled[1].error = "InitFailed") =>
        /\ Len(settled) = 1
        /\ workers = <<>>
        /\ ~timerPending /\ ~timeoutHandle
        /\ \E f \in Lanes : \A i \in Lanes :
              /\ i < f => wst[i] = "created" /\ terminated[i]
              /\ i >= f => wst[i] = "absent" /\ inbox[i] = <<>>
        /\ \A i \in Lanes : SolveCount(i) = 0 /\ sent[i] = <<>>
        /\ workersInitialized = 0

\* the creation of the second worker threw after the first had been created
C28_Witness ==
    /\ settled # <<>> /\ settled[1].error = "InitFailed"
    /\ numCores >= 2
    /\ wst[0] = "created" /\ terminated[0] /\ inbox[0] # <<>>
    /\ wst[1] = "absent"
    /\ client = "failed"

\* the success and error messages lane i has posted
Terminals(i) == SentOfType(i, "success") \cup SentOfType(i, "error")

\* C29: a lane posts at most one terminal message, success or error; a lane of
\* wasm_pow_worker.js posts it only for a solve message it has taken up; a lane
\* that has left its search, found or exhausted, has posted exactly one, as its
\* last message; a searching lane has posted none; the success of a portable
\* search directly follows the lane's finalProgress; and a lane that has posted
\* its terminal message, or has been terminated, posts nothing more.
C29_LaneLifecycle ==
    /\ [](\A i \in Lanes :
            /\ Cardinality(Terminals(i)) <= 1
            /\ \A k \in Terminals(i) : k = Len(sent[i])
            /\ (useWasm /\ Terminals(i) # {}) => wst[i] \in {"done", "failed"}
            /\ wst[i] = "done" => Cardinality(SentOfType(i, "success")) = 1
            /\ wst[i] = "failed" => Cardinality(SentOfType(i, "error")) = 1
            /\ wst[i] = "searching" => Terminals(i) = {}
            /\ Portable(i) =>
                  \A k \in SentOfType(i, "success") :
                     k > 1 /\ sent[i][k - 1].type = "finalProgress")
    /\ [][\A i \in Lanes :
            (Terminals(i) # {} \/ terminated[i]) => sent'[i] = sent[i]]_vars

\* one lane found its nonce on the portable path after a progress report and
\* another gave up at the ceiling
C29_Witness ==
    /\ \E i \in Lanes :
          /\ Portable(i) /\ wst[i] = "done"
          /\ SentOfType(i, "progress") # {}
    /\ \E j \in Lanes : wst[j] = "failed"

\* solve has rejected because the timer fired or because all lanes were counted
\* as failed
RejectedLate ==
    \E k \in 1..Len(settled) : settled[k].error \in {"Timeout", "AllFailed"}

\* the step is _handleWorkerMessage handling a message of some lane
MessageHandled ==
    \E i \in Lanes :
       /\ chan[i] # <<>>
       /\ Head(chan[i]).type # "errorEvent"
       /\ chan' = [chan EXCEPT ![i] = Tail(@)]

\* C30: once solve has rejected on timeout or on all lanes failed, handling a
\* lane message leaves totalAttempts and workersInitialized unchanged, invokes
\* neither onProgress nor onWasmStatus, posts no solve message and invokes no
\* continuation of the promise.
C30_LateMessagesIgnored ==
    [][(RejectedLate /\ MessageHandled) =>
          /\ totalAttempts' = totalAttempts
          /\ workersInitialized' = workersInitialized
          /\ progressCalls' = progressCalls
          /\ wasmStatusCalls' = wasmStatusCalls
          /\ inbox' = inbox
          /\ settled' = settled]_vars

(***************************************************************************)
(* terminate() called from outside while a solve is in flight.  The method *)
(* is public; it stops the workers and clears the timer and touches        *)
(* neither resolvePromise nor rejectPromise.                               *)
(***************************************************************************)
ExternalTerminate ==
    /\ called
    /\ settled = <<>>
    /\ workers # <<>>
    /\ terminated' = Terminate
    /\ workers' = <<>>
    /\ timeoutHandle' = FALSE
    /\ timerPending' = FALSE
    /\ UNCHANGED <<clientVars, serverVars, testVars, uiVars, numCores, useWasm,
                   threadsSupported, called, argChallenge, argDifficulty, currentChallenge,
                   currentDifficulty, solutionFound, workersInitialized, totalAttempts,
                   failedWorkers, isWasmAvailable, isWasmThreaded, progressCalls,
                   wasmStatusCalls, firstSuccess, laneVars, inbox, chan, settled>>

CancelNext == LiveNext \/ ExternalTerminate

\* the timer callback and the delivery of posted messages and error events
\* are weakly fair: the page's event loop runs them
CancelSpec ==
    /\ LiveInit
    /\ [][CancelNext]_vars
    /\ WF_vars(Timeout)
    /\ WF_vars(\E i \in Lanes : HandleWorkerMessage(i))
    /\ WF_vars(\E i \in Lanes : HandleWorkerError(i))

\* C31: a terminate() during a solve terminates every lane and clears the
\* timer, and the solve is eventually settled.
C31_TerminateSettles ==
    /\ [][(settled = <<>> /\ workers # <<>> /\ workers' = <<>> /\ settled' = settled) =>
            /\ \A i \in Lanes : Created(i) => terminated'[i]
            /\ ~timerPending' /\ ~timeoutHandle']_vars
    /\ called ~> (settled # <<>>)

(***************************************************************************)
(* solve called again on the same WorkerPoolManager.  solve resets         *)
(* solutionFound, totalAttempts and workersInitialized, overwrites the     *)
(* continuations and the timer handle, and pushes numCores new workers     *)
(* onto this.workers; it neither terminates the workers the array already  *)
(* holds nor clears the timer of the earlier call.                         *)
(***************************************************************************)
\* the workers a second call of solve creates
SecondLanes == Slots \ Lanes

SolveAgain(c, d) ==
    /\ called
    /\ SecondLanes # {}
    /\ \A i \in SecondLanes : wst[i] = "absent"
    /\ argChallenge' = c
    /\ argDifficulty' = d
    /\ currentChallenge' = c
    /\ currentDifficulty' = d
    /\ solutionFound' = FALSE
    /\ totalAttempts' = 0
    /\ workersInitialized' = 0
    /\ failedWorkers' = 0
    /\ wst' = [i \in Slots |-> IF i \in SecondLanes THEN "created" ELSE wst[i]]
    /\ inbox' = [i \in Slots |-> IF i \in SecondLanes THEN Append(inbox[i], InitMsg)
                                  ELSE inbox[i]]
    /\ workers' = workers \o [k \in 1..numCores |-> numCores + k - 1]
    /\ timeoutHandle' = TRUE
    /\ timerPending' = TRUE
    /\ UNCHANGED <<clientVars, serverVars, testVars, uiVars, numCores, useWasm,
                   threadsSupported, called, isWasmAvailable, isWasmThreaded, progressCalls,
                   wasmStatusCalls, firstSuccess, settled, terminated, sent, wUseWasm,
                   wThreaded, job, nonce, attempts, lastReported, tested, wasmThrew, chan>>

\* a page of one lane per solve, on which solve may be called twice
AgainInit ==
    /\ InitWith(2)
    /\ numCores = 1
    /\ useWasm
    /\ ~threadsSupported
    /\ workerSupport
    /\ page = [hasDifficulty |-> TRUE, difficulty |-> ToDecimal(MaxDifficulty),
               hasTimestamp |-> TRUE, timestamp |-> Timestamp,
               hasChallenge |-> TRUE, challenge |-> "abc123"]

AgainNext ==
    \/ SolveChallenge("challenge_main", numCores)
    \/ \E d \in 1..MaxDifficulty : SolveAgain(page.challenge, d)
    \/ Timeout
    \/ \E i \in Slots : HandleWorkerMessage(i)
    \/ \E i \in Slots, loaded \in BOOLEAN : LaneInit(i, loaded)
    \/ \E i \in Slots : LaneSolve(i, FALSE)
    \/ \E i \in Slots : LaneHash(i)

AgainSpec == AgainInit /\ [][AgainNext]_vars

\* the workers that exist and have not been terminated
Live == {i \in Slots : Created(i) /\ ~terminated[i]}

\* C32: the coordinator never holds more than numCores workers, all live
\* workers are held, no two live workers have been given the same startNonce,
\* and a call of solve leaves solutionFound false and totalAttempts and
\* workersInitialized 0.
C32_PoolBounded ==
    /\ [](Len(workers) <= numCores /\ Cardinality(Live) <= numCores)
    /\ [](\A i \in Live : \A j \in Live : i # j =>
             \A a \in Assignments(i) : \A b \in Assignments(j) :
                a.startNonce # b.startNonce)
    /\ [][Len(workers') > Len(workers) =>
             ~solutionFound' /\ totalAttempts' = 0 /\ workersInitialized' = 0]_vars

\* the digests computed by the workers 0..n-1 that search at difficulty d
RECURSIVE DigestsAt(_, _)
DigestsAt(n, d) ==
    IF n = 0 THEN 0
    ELSE (IF job[n - 1] # NoJob /\ job[n - 1].difficulty = d
          THEN Cardinality(tested[n - 1]) ELSE 0) + DigestsAt(n - 1, d)

\* solve has been called a second time, with another difficulty than the first
\* time, so that the difficulty of a worker's search tells which call it serves
SecondCallDiffers ==
    /\ \E i \in SecondLanes : Created(i)
    /\ currentDifficulty # ParseInt(page.difficulty).value

\* C33: totalAttempts never exceeds the digests computed by the lanes of the
\* current solve: after a second call of solve it counts nothing that lanes
\* searching for the earlier call have reported.
C33_NoOverCount ==
    /\ (\A i \in SecondLanes : ~Created(i)) =>
          totalAttempts <= DigestsAt(numCores, currentDifficulty)
    /\ SecondCallDiffers =>
          totalAttempts <= DigestsAt(2 * numCores, currentDifficulty)

\* C34: a portable lane never computes more than AttemptLimit digests in one
\* search, and a lane that has given up with the attempt-limit error has
\* computed exactly AttemptLimit digests.
C34_CeilingExact ==
    \A i \in Lanes :
       /\ Portable(i) => Cardinality(tested[i]) <= AttemptLimit
       /\ wst[i] = "failed" => Cardinality(tested[i]) = AttemptLimit

(***************************************************************************)
(* The submission: ApiClient.submitSolution and the redirect.              *)
(***************************************************************************)
\* how the fetch of submitSolution can end: it rejects, or it gives a response
\* that is not OK, or an OK response with a JSON body, a body that is announced
\* as JSON and does not parse, or any other body
Responses == {"networkError", "notOk", "okJson", "okBadJson", "okText"}

\* a submitSolution that returns whatever the fetch gave
SubmitRejectsNever(r) == FALSE

\* submitSolution throws: fetch rejected, response.ok is false, or
\* response.json() rejected; the catch rethrows each of them
SubmitRejects(r) == r \in {"networkError", "notOk", "okBadJson"}

\* solveChallenge after its await of submitSolution: the redirect, or the
\* showError of the inner catch, which sets the status and the progress to 0
SubmitSolution(r) ==
    /\ client = "submitted"
    /\ response' = r
    /\ IF SubmitRejects(r)
       THEN /\ client' = "submitFailed"
            /\ errorsShown' = errorsShown + 1
            /\ progress' = 0
       ELSE /\ client' = "redirected"
            /\ UNCHANGED <<errorsShown, progress>>
    /\ UNCHANGED <<serverVars, testVars, uiVars, page, workerSupport, submitted, coordVars,
                   laneVars, threadsSupported, terminated, inbox, chan>>

SubmitNext == LiveNext \/ \E r \in Responses : SubmitSolution(r)

SubmitSpec == LiveInit /\ [][SubmitNext]_vars

\* C36: the page redirects only after submitSolution got an OK response; when
\* the fetch fails or the response is not OK, submitSolution rejects: one
\* error is shown, the progress is set to 0, and no redirect happens then or
\* later.
C36_RedirectOnlyAfterOk ==
    /\ [](client = "redirected" =>
             /\ response \in {"okJson", "okText"}
             /\ submitted # <<>>)
    /\ [](response \in {"networkError", "notOk"} =>
             client = "submitFailed" /\ progress = 0)
    /\ [][response' # response =>
             /\ client = "submitted"
             /\ response' \in {"networkError", "notOk"} =>
                   /\ client' = "submitFailed"
                   /\ errorsShown' = errorsShown + 1
                   /\ progress = 100 /\ progress' = 0]_vars
    /\ [][client = "submitFailed" => client' = "submitFailed"]_vars

\* the server answered the submission of a found solution with a status that
\* is not OK
C36_Witness ==
    /\ client = "submitFailed"
    /\ response = "notOk"
    /\ submitted # <<>>
    /\ errorsShown = 1
    /\ progress = 0

(***************************************************************************)
(* The test page: src/pow-worker-test/assets/challenge_main.js.            *)
(* Its single-threaded fallback races calculatePowSolution, run on the     *)
(* main thread, against a timer.                                           *)
(***************************************************************************)
\* the digest of the page's challenge with nonce n meets the page's difficulty
MainQualifies(n) ==
    StartsWith(Sha256Hex(page.challenge, n), TargetPrefix(ParseInt(page.difficulty).value))

\* the solution calculatePowSolution returns for nonce n
MainSolution(n) ==
    [nonce_str |-> ToDecimal(n), hash |-> Sha256Hex(page.challenge, n), attempts |-> 0]

\* the fulfilment of calculatePowSolution, in the form of a lane's success
MainSuccess(n) == [Msg("success") EXCEPT !.solution = MainSolution(n)]

\* Promise.race takes the first settlement of the promises it was given
RaceOutcome == raceSettled[1]

\* what the page shows once the race is settled: the statements after the
\* await when it is fulfilled, the two catch clauses when it is rejected
AfterRace(settlements) ==
    IF settlements[1].kind = "resolve" THEN "solved" ELSE "failed"

\* solveChallenge of the test page without window.Worker, up to its await of
\* Promise.race: the timer is armed and calculatePowSolution starts
FallbackStart ==
    /\ testClient = "loaded"
    /\ ValidPage
    /\ ~workerSupport
    /\ testClient' = "racing"
    /\ raceTimer' = TRUE
    /\ mainSearch' = "running"
    /\ mainNonce' = 0
    /\ mainAttempts' = 0
    /\ UNCHANGED <<solverVars, serverVars, equivVars, mainTested, raceSettled>>

\* one pass of the loop of calculatePowSolution on the main thread, from one
\* await of crypto.subtle.digest to the next: nothing in the loop looks at the
\* race or at the timer
MainHash ==
    /\ mainSearch = "running"
    /\ mainTested' = mainTested \cup {mainNonce}
    /\ IF MainQualifies(mainNonce)
       THEN /\ mainSearch' = "found"
            /\ raceSettled' = Append(raceSettled, Resolve(MainSuccess(mainNonce)))
            /\ UNCHANGED <<mainNonce, mainAttempts>>
       ELSE /\ mainNonce' = mainNonce + 1
            /\ mainAttempts' = mainAttempts + 1
            /\ IF CeilingPassed(mainAttempts + 1)
               THEN /\ mainSearch' = "exhausted"
                    /\ raceSettled' = Append(raceSettled, Reject("AttemptLimit"))
               ELSE UNCHANGED <<mainSearch, raceSettled>>
    /\ testClient' = IF raceSettled = <<>> /\ raceSettled' # <<>>
                     THEN AfterRace(raceSettled') ELSE testClient
    /\ UNCHANGED <<solverVars, serverVars, equivVars, raceTimer>>

\* the callback of the timer of timeoutPromise, which nothing ever clears
RaceTimeout ==
    /\ raceTimer
    /\ raceTimer' = FALSE
    /\ raceSettled' = Append(raceSettled, Reject("Timeout"))
    /\ testClient' = IF raceSettled = <<>> THEN AfterRace(raceSettled') ELSE testClient
    /\ UNCHANGED <<solverVars, serverVars, equivVars, mainSearch, mainNonce, mainAttempts,
                   mainTested>>

FallbackInit == Init /\ ValidPage /\ ~workerSupport

FallbackNext == FallbackStart \/ MainHash \/ RaceTimeout

FallbackSpec == FallbackInit /\ [][FallbackNext]_vars

\* the timer settled the race before the search did
TimeoutWon == raceSettled # <<>> /\ RaceOutcome.error = "Timeout"

\* C37: when the timeout wins the race of the single-threaded fallback, the
\* operation fails with the timeout error and the search is cancelled: no
\* digest is computed after the failure has been reported.
C37_FallbackCancelled ==
    /\ [](TimeoutWon => testClient = "failed")
    /\ [][TimeoutWon => mainTested' = mainTested]_vars

(***************************************************************************)
(* The inline coordinator that WorkerPoolManager replaced: the promise     *)
(* body of solveChallenge in src/pow-worker-test/assets/challenge_main.js  *)
(* and src/unnamed/part_001.  Both coordinators are run on one sequence of *)
(* lane events.                                                            *)
(***************************************************************************)
MaxEvents == 3

\* the solution carried by a success message of lane i; neither coordinator
\* reads it
EventSolution(i) == [nonce_str |-> ToDecimal(i), hash |-> <<>>, attempts |-> 0]

\* a message of type t from lane i, the error event of lane i, the expiry of
\* the timer
MessageEvent(i, t) ==
    [kind |-> "message", lane |-> i,
     msg |-> [Msg(t) EXCEPT !.solution = IF t = "success" THEN EventSolution(i)
                                          ELSE NoSolution]]
ErrorEvent(i) == [kind |-> "errorEvent", lane |-> i, msg |-> Msg("none")]
TimeoutEvent == [kind |-> "timeout", lane |-> 0, msg |-> Msg("none")]

\* _handleWorkerMessage on the run r: nothing once solutionFound; success
\* sets the flag and resolves; progress and finalProgress settle nothing; the
\* switch has no case for error
PoolOnMessage(r, m) ==
    IF r.solutionFound THEN r
    ELSE IF m.type = "success"
         THEN [r EXCEPT !.solutionFound = TRUE, !.settled = Append(@, Resolve(m))]
         ELSE r

\* the onerror closure and _handleWorkerError: the closure counts first, the
\* handler rejects when the count has reached numCores and no solution was found
PoolOnError(r) ==
    LET n == r.failedWorkers + 1
    IN IF ~r.solutionFound /\ n >= numCores
       THEN [r EXCEPT !.failedWorkers = n, !.settled = Append(@, Reject("AllFailed"))]
       ELSE [r EXCEPT !.failedWorkers = n]

\* the timer callback of solve
PoolOnTimeout(r) ==
    IF ~r.solutionFound THEN [r EXCEPT !.settled = Append(@, Reject("Timeout"))]
    ELSE r

\* worker.onmessage of the inline coordinator: success resolves unless
\* solutionFound; an error message counts a failed worker and rejects when
\* the count has reached numCores; progress and finalProgress settle nothing
InlineOnMessage(r, m) ==
    IF m.type = "success"
    THEN IF r.solutionFound THEN r
         ELSE [r EXCEPT !.solutionFound = TRUE, !.settled = Append(@, Resolve(m))]
    ELSE IF m.type = "error"
         THEN LET n == r.failedWorkers + 1
              IN IF n >= numCores
                 THEN [r EXCEPT !.failedWorkers = n,
                                !.settled = Append(@, Reject("AllFailed"))]
                 ELSE [r EXCEPT !.failedWorkers = n]
         ELSE r

\* worker.onerror of the inline coordinator
InlineOnError(r) ==
    LET n == r.failedWorkers + 1
    IN IF n >= numCores
       THEN [r EXCEPT !.failedWorkers = n, !.settled = Append(@, Reject("AllFailed"))]
       ELSE [r EXCEPT !.failedWorkers = n]

\* the timer callback of the inline coordinator
InlineOnTimeout(r) ==
    IF ~r.solutionFound THEN [r EXCEPT !.settled = Append(@, Reject("Timeout"))]
    ELSE r

\* lane i has posted its success or its error message
LaneEnded(i) ==
    \E k \in 1..Len(trace) :
       /\ trace[k].kind = "message" /\ trace[k].lane = i
       /\ trace[k].msg.type \in {"success", "error"}

\* a lane posts one more message while its search has not ended
DeliverMessage(i, t) ==
    /\ Len(trace) < MaxEvents
    /\ ~LaneEnded(i)
    /\ trace' = Append(trace, MessageEvent(i, t))
    /\ poolRun' = PoolOnMessage(poolRun, MessageEvent(i, t).msg)
    /\ inlineRun' = InlineOnMessage(inlineRun, MessageEvent(i, t).msg)
    /\ UNCHANGED <<solverVars, serverVars, fallbackVars>>

\* the script of lane i raises an error event
DeliverErrorEvent(i) ==
    /\ Len(trace) < MaxEvents
    /\ Cardinality({k \in 1..Len(trace) : trace[k] = ErrorEvent(i)}) < MaxErrorEvents
    /\ trace' = Append(trace, ErrorEvent(i))
    /\ poolRun' = PoolOnError(poolRun)
    /\ inlineRun' = InlineOnError(inlineRun)
    /\ UNCHANGED <<solverVars, serverVars, fallbackVars>>

\* the timer expires, once
DeliverTimeout ==
    /\ Len(trace) < MaxEvents
    /\ \A k \in 1..Len(trace) : trace[k] # TimeoutEvent
    /\ trace' = Append(trace, TimeoutEvent)
    /\ poolRun' = PoolOnTimeout(poolRun)
    /\ inlineRun' = InlineOnTimeout(inlineRun)
    /\ UNCHANGED <<solverVars, serverVars, fallbackVars>>

EquivNext ==
    \/ \E i \in Lanes, t \in {"progress", "finalProgress", "success", "error"} :
          DeliverMessage(i, t)
    \/ \E i \in Lanes : DeliverErrorEvent(i)
    \/ DeliverTimeout

EquivSpec == LiveInit /\ [][EquivNext]_vars

\* what the promise of a run has settled with: nothing yet, or the first
\* continuation invoked, by its kind, its error and the nonce of its solution
Outcome(r) ==
    IF r.settled = <<>> THEN <<>>
    ELSE <<r.settled[1].kind, r.settled[1].error, r.settled[1].solution.nonce_str>>

\* C35: after every sequence of lane events WorkerPoolManager.solve and the
\* inline coordinator have settled alike: neither has settled, or both have,
\* with the same solution or the same kind of error.
C35_SameOutcome == Outcome(poolRun) = Outcome(inlineRun)

====
